---- MODULE Spec2Model ----
(***************************************************************************)
(* Team / request-approval workflow of project-grace: client screens that  *)
(* act on a shared document store (users, teams, requests, games).  Every  *)
(* handler is a sequence of remote calls; a step of the model is one       *)
(* remote call (or a run of reads) of one handler on one device, so that   *)
(* handlers of different devices interleave exactly where the code awaits. *)
(***************************************************************************)
EXTENDS Integers, Sequences, FiniteSets, TLC

\* ------------------------------------------------------------------ bounds
Users == {"u1", "u2"}              \* accounts that signed up
Devices == {"d1", "d2"}            \* app instances (a user may use two)
NoUser == "nobody"                 \* auth.currentUser == null
Names == {"Eagles", "Hawks"}       \* team names a user may type
Handlers == {"h1", "h2", "h3"}     \* callbacks passed to onAppEvent
OneName == {"Eagles"}              \* the runs where the name plays no part
MaxTeams == 2                      \* team documents ever created
MaxReq == 2                        \* request documents ever created
MaxGames == 1                      \* game documents ever created
MaxFail == 1                       \* remote calls that fail in one behaviour
SoloTeams == 1                     \* teams of the runs that study one team
SoloReq == 1                       \* requests of the runs that study the cascade
MaxOcc == 2                        \* occurrences selected in one createGames
SchedGames == 2                    \* game documents in the scheduling runs
SoloGameReq == 1                   \* game request documents
TwoFail == 2                       \* failing calls: an update and its fallback
MaxNear == 3                       \* game documents a search reads

\* ---------------------------------------------------------- program values
NullTeam == 0                      \* teamId: null
EmptyTeam == -1                    \* teamId: ''
NoCoords == -1                     \* a game whose location has no lat / lng
KmToMilesE6 == 621371              \* KM_TO_MILES = 0.621371, in millionths

VARIABLES
    users,        \* users/{uid}: [teamId, isCoordinator]
    teams,        \* teams/{id}, id = position: [live, name]
    requests,     \* requests/{id}, id = position: [userId, teamId, teamName, status]
    games,        \* games/{id}, id = position: [teamId, type, title, createdBy, live]
                  \*   and in the search runs dist, the distance from the user
    cur,          \* device -> auth.currentUser
    pc,           \* device -> position in the handler it runs
    teamData,     \* device -> dashboard state teamData.id (NullTeam: not loaded)
    reqList,      \* device -> dashboard state requests (ids of the listed requests)
    creation,     \* device -> scheduler state [status, createdCount, totalToCreate]
    gameRequests, \* gameRequests/{id}, id = position: [teamId, homeTeamId,
                  \*   requestingTeamId, requestedBy, title, type, status,
                  \*   homeTeamName, requestingTeamName]
    gameReqList,  \* device -> dashboard state gameRequests (ids of the listed ones)
    gameList,     \* device -> dashboard state games (ids of the listed games)
    results,      \* device -> FindGames state: [kind, radius, items], the games shown
    loc,          \* device -> locals of the running handler
    toast,        \* what the last step showed: [dev, msg], NoToast when nothing
    failLeft,     \* remote calls that may still fail
    native,       \* TRUE: db.collection is a function (native SDK), FALSE: web SDK
    cap,          \* what the run may create: [teams, reqs, games, names]
    bus           \* appEvents: the listeners of 'team:created' and the emit under way

vars == <<users, teams, requests, games, cur, pc, teamData, reqList, creation,
          gameRequests, gameReqList, gameList, results, loc, toast, failLeft, native,
          cap, bus>>

store == <<users, teams, requests, games>>
local == <<cur, teamData, reqList, creation>>
\* what no screen handler writes: the SDK, the run's limits, the event bus
env == <<native, cap, bus>>
gr == <<gameRequests, gameReqList, gameList>>
gameLists == <<gameReqList, gameList>>

\* router.replace away from the dashboard: the lists of its games and game
\* requests go with the screen
LeaveDashboard(d) ==
    /\ gameReqList' = [gameReqList EXCEPT ![d] = {}]
    /\ gameList' = [gameList EXCEPT ![d] = {}]

\* ------------------------------------------------------------ store reads
TeamIds == 1..MaxTeams

\* `if (userData.teamId)`: null and '' are both falsy
Truthy(t) == t # NullTeam /\ t # EmptyTeam

TeamExists(t) == t \in 1..Len(teams) /\ teams[t].live

\* a request document exists (a deleted document keeps its slot, status "deleted")
ReqExists(r) == r \in 1..Len(requests) /\ requests[r].status # "deleted"

GameExists(g) == g \in 1..Len(games) /\ games[g].live

\* runCollectionQuery({collectionId:'requests', where teamId == t})
RequestsOfTeam(t) == {r \in 1..Len(requests) : ReqExists(r) /\ requests[r].teamId = t}

PendingOfTeam(t) == {r \in RequestsOfTeam(t) : requests[r].status = "pending"}

GamesOfTeam(t) == {g \in 1..Len(games) : GameExists(g) /\ games[g].teamId = t}

UsersOfTeam(t) == {u \in DOMAIN users : users[u].teamId = t}

\* countCoordinators: users where teamId == t, filtered on isCoordinator
countCoordinators(t) == Cardinality({u \in UsersOfTeam(t) : users[u].isCoordinator})

\* ------------------------------------------------------- remote-call faults
\* a remote call succeeds, or fails while the fault budget lasts
Outcomes == IF failLeft > 0 THEN {TRUE, FALSE} ELSE {TRUE}

Spend(n) == failLeft' = failLeft - n

Cost(ok) == IF ok THEN 0 ELSE 1

\* --------------------------------------------------------- handler locals
NoLoc == [req |-> 0, team |-> NullTeam, ops |-> <<>>, kind |-> "none", pend |-> {},
          todo |-> 0, made |-> 0, name |-> "none"]

Idle(d) == pc[d] = "idle"

NoToast == [dev |-> "none", msg |-> "none", n |-> 0]

\* Toast.show / Alert.alert with text m on device d
Show(d, m) == [dev |-> d, msg |-> m, n |-> 0]

\* the handler of d ends showing message m
Finish(d, m) ==
    /\ pc' = [pc EXCEPT ![d] = "idle"]
    /\ loc' = [loc EXCEPT ![d] = NoLoc]
    /\ toast' = Show(d, m)

\* the handler of d ends showing nothing
Return(d) ==
    /\ pc' = [pc EXCEPT ![d] = "idle"]
    /\ loc' = [loc EXCEPT ![d] = NoLoc]
    /\ toast' = NoToast

\* the handler of d goes on at p with locals l
Goto(d, p, l) ==
    /\ pc' = [pc EXCEPT ![d] = p]
    /\ loc' = [loc EXCEPT ![d] = l]
    /\ toast' = NoToast

\* -------------------------------------------------------------- appEvents
\* everything but the event bus
screens == <<store, local, pc, loc, toast, failLeft, native, cap, gr, results>>

Elems(q) == {q[i] : i \in 1..Len(q)}

\* Set.prototype.add: insertion order, no duplicates
SetAdd(q, h) == IF h \in Elems(q) THEN q ELSE Append(q, h)

\* Set.prototype.delete
SetDelete(q, h) == SelectSeq(q, LAMBDA x : x # h)

\* a loop that a throwing handler ends
RestDropped(q) == <<>>

\* the try / catch around h(payload): the loop goes on with the rest
RestAfterThrow(q) == q

\* onAppEvent(event, h) called by a screen while no emit runs
onAppEvent(h) ==
    /\ ~bus.emitting
    /\ bus' = [bus EXCEPT !.known = TRUE, !.listeners = SetAdd(@, h)]
    /\ UNCHANGED screens

\* the function onAppEvent returned for h, called while no emit runs
unsubscribe(h) ==
    /\ ~bus.emitting /\ bus.known
    /\ bus' = [bus EXCEPT !.listeners = SetDelete(@, h)]
    /\ UNCHANGED screens

\* emitAppEvent(event): `if (!set) return`, else Array.from(set) is taken, a
\* copy that later add and delete do not reach
emitAppEvent_begin ==
    /\ ~bus.emitting /\ bus.known
    /\ bus' = [bus EXCEPT !.emitting = TRUE, !.queue = bus.listeners,
                          !.began = Elems(bus.listeners),
                          !.calls = [h \in Handlers |-> 0],
                          !.threw = FALSE, !.added = FALSE, !.removed = FALSE]
    /\ UNCHANGED screens

\* one turn of the loop: h(payload) for the next handler of the copy.  The
\* handler may subscribe or unsubscribe a handler g, and may throw.
emitAppEvent_call ==
    /\ bus.emitting /\ bus.queue # <<>>
    /\ \E change \in {"none", "on", "off"}, g \in Handlers, throws \in BOOLEAN :
          bus' = [bus EXCEPT
                    !.calls[Head(bus.queue)] = @ + 1,
                    !.listeners = CASE change = "on"  -> SetAdd(@, g)
                                    [] change = "off" -> SetDelete(@, g)
                                    [] OTHER          -> @,
                    !.queue = IF throws THEN RestAfterThrow(Tail(@)) ELSE Tail(@),
                    !.threw = @ \/ throws,
                    !.added = @ \/ (change = "on" /\ g \notin bus.began),
                    !.removed = @ \/ (change = "off" /\ g \in Elems(Tail(bus.queue)))]
    /\ UNCHANGED screens

\* the loop is over, emitAppEvent returns
emitAppEvent_return ==
    /\ bus.emitting /\ bus.queue = <<>>
    /\ bus' = [bus EXCEPT !.emitting = FALSE]
    /\ UNCHANGED screens

\* ------------------------------------------------------------------- Init
InitStore ==
    /\ users = [u \in Users |-> [teamId |-> NullTeam, isCoordinator |-> FALSE]]
    /\ teams = <<>>
    /\ requests = <<>>
    /\ games = <<>>
    /\ gameRequests = <<>>

\* FindGames before any search
NoResults == [kind |-> "none", radius |-> 0, items |-> <<>>]

\* the scheduler screen as mounted: no status, both counters 0
NoCreation == [status |-> [i \in 1..MaxOcc |-> "idle"], createdCount |-> 0,
               totalToCreate |-> 0]

\* appEvents as loaded: `const listeners = {}`, no emit running.  listeners
\* is the Set of the one event in insertion order; known says listeners[event]
\* has been created.  began, calls, threw, added and removed record the emit:
\* who was subscribed when it began, how often each handler was invoked, and
\* what the handlers did meanwhile.
NoBus == [known |-> FALSE, listeners |-> <<>>, emitting |-> FALSE, queue |-> <<>>,
          began |-> {}, calls |-> [h \in Handlers |-> 0],
          threw |-> FALSE, added |-> FALSE, removed |-> FALSE]

InitLocal ==
    /\ bus = NoBus
    /\ cur = [d \in Devices |-> NoUser]
    /\ pc = [d \in Devices |-> "idle"]
    /\ teamData = [d \in Devices |-> NullTeam]
    /\ reqList = [d \in Devices |-> {}]
    /\ creation = [d \in Devices |-> NoCreation]
    /\ gameReqList = [d \in Devices |-> {}]
    /\ gameList = [d \in Devices |-> {}]
    /\ results = [d \in Devices |-> NoResults]
    /\ loc = [d \in Devices |-> NoLoc]
    /\ toast = NoToast

\* what the model starts from: every account signed up, nobody logged in
InitApp == InitStore /\ InitLocal

\* ------------------------------------------------------------------ login
\* the document handleLogin upserts when it believes users/{uid} is missing
LoginDoc == [teamId |-> NullTeam, isCoordinator |-> FALSE]

\* handleLogin: sign in, getDocument(users/uid); a failed read leaves
\* existing == null, and then the default document is merged over users/uid.
\* The login screen is shown only while nobody is signed in on the device.
handleLogin(d, u) ==
    /\ Idle(d) /\ cur[d] = NoUser
    /\ \E getOk \in Outcomes, upOk \in Outcomes :
          /\ Cost(getOk) + Cost(upOk) <= failLeft
          /\ getOk => upOk
          /\ Spend(Cost(getOk) + Cost(upOk))
          /\ users' = IF ~getOk /\ upOk THEN [users EXCEPT ![u] = LoginDoc] ELSE users
    /\ cur' = [cur EXCEPT ![d] = u]
    /\ teamData' = [teamData EXCEPT ![d] = NullTeam]
    /\ reqList' = [reqList EXCEPT ![d] = {}]
    /\ creation' = [creation EXCEPT ![d] = NoCreation]
    /\ gameReqList' = [gameReqList EXCEPT ![d] = {}]
    /\ gameList' = [gameList EXCEPT ![d] = {}]
    /\ Finish(d, "Welcome back!")
    /\ UNCHANGED <<teams, requests, games, env, gameRequests, gameList, results>>

\* ------------------------------------------------------------ create team
\* the BLOCK checks of handleCreateTeam on the user document it read
CreateBlocked(doc) == doc.isCoordinator \/ Truthy(doc.teamId)

\* handleCreateTeam, getDocument(users/uid): blocked for a coordinator or a
\* member; a failed read is logged and the handler proceeds
handleCreateTeam_read(d, n) ==
    /\ Idle(d) /\ cur[d] # NoUser
    /\ Len(teams) < cap.teams /\ n \in cap.names
    /\ \E ok \in Outcomes :
          /\ Spend(Cost(ok))
          /\ IF ok /\ CreateBlocked(users[cur[d]])
                THEN Finish(d, "Cannot create team")
                ELSE Goto(d, "ct_add", [NoLoc EXCEPT !.name = n])
    /\ UNCHANGED <<store, local, env, gr, results>>

\* the payload of a new team: teamName: teamName.trim()
NewTeam(n) == [live |-> TRUE, name |-> n]

\* handleCreateTeam, addDocSafe('teams', payload)
handleCreateTeam_add(d) ==
    /\ pc[d] = "ct_add"
    /\ \E ok \in Outcomes :
          /\ Spend(Cost(ok))
          /\ IF ok
                THEN /\ teams' = Append(teams, NewTeam(loc[d].name))
                     /\ pc' = [pc EXCEPT ![d] = "ct_upsert"]
                     /\ loc' = [loc EXCEPT ![d] = [NoLoc EXCEPT !.team = Len(teams) + 1]]
                     /\ toast' = Show(d, "Team created")
                ELSE /\ Finish(d, "Create failed")
                     /\ UNCHANGED teams
    /\ UNCHANGED <<users, requests, games, local, env, gr, results>>

\* the fields handleCreateTeam merges into users/uid
CreatorDoc(t) == [teamId |-> t, isCoordinator |-> TRUE]

\* handleCreateTeam, upsertUserDoc(uid, {teamId, isCoordinator: true}); a
\* failure is caught and logged, nothing more is shown
handleCreateTeam_upsert(d) ==
    /\ pc[d] = "ct_upsert"
    /\ \E ok \in Outcomes :
          /\ Spend(Cost(ok))
          /\ users' = IF ok THEN [users EXCEPT ![cur[d]] = CreatorDoc(loc[d].team)]
                            ELSE users
    /\ Return(d)
    /\ UNCHANGED <<teams, requests, games, local, env, gr, results>>

\* ---------------------------------- create team, the name-checked screen
\* a query for the name that finds nothing
TeamsNamedNone(n) == {}

\* getDocs(teams where teamName == teamName.trim())
TeamsNamed(n) == {t \in 1..Len(teams) : TeamExists(t) /\ teams[t].name = n}

\* handleCreateTeam of the name-checked screen, the query for the name; the
\* user document is not read
handleCreateTeam_nameCheck(d, n) ==
    /\ Idle(d) /\ cur[d] # NoUser
    /\ Len(teams) < cap.teams /\ n \in cap.names
    /\ \E ok \in Outcomes :
          /\ Spend(Cost(ok))
          /\ IF ~ok THEN Finish(d, "Error creating team")
             ELSE IF TeamsNamed(n) # {} THEN Finish(d, "Team name taken")
             ELSE Goto(d, "nc_add", [NoLoc EXCEPT !.name = n])
    /\ UNCHANGED <<store, local, env, gr, results>>

\* the same handler, addDoc(collection(db, 'teams'), ...)
handleCreateTeam_nameAdd(d) ==
    /\ pc[d] = "nc_add"
    /\ \E ok \in Outcomes :
          /\ Spend(Cost(ok))
          /\ IF ok
                THEN /\ teams' = Append(teams, NewTeam(loc[d].name))
                     /\ Goto(d, "nc_update", [loc[d] EXCEPT !.team = Len(teams) + 1])
                ELSE /\ Finish(d, "Error creating team")
                     /\ UNCHANGED teams
    /\ UNCHANGED <<users, requests, games, local, env, gr, results>>

\* the same handler, updateDoc(userRef, {teamId, isCoordinator: true})
handleCreateTeam_nameUpdate(d) ==
    /\ pc[d] = "nc_update"
    /\ \E ok \in Outcomes :
          /\ Spend(Cost(ok))
          /\ IF ok
                THEN /\ users' = [users EXCEPT ![cur[d]] = CreatorDoc(loc[d].team)]
                     /\ Finish(d, "Team Created!")
                ELSE /\ UNCHANGED users
                     /\ Finish(d, "Error creating team")
    /\ UNCHANGED <<teams, requests, games, local, env, gr, results>>

\* ------------------------------- create team, the form of FindGamesScreen
\* handleCreateTeam of FindGamesScreen, addDoc(collection(db, 'teams'),
\* payload): neither the user document nor the name is looked at
handleCreateTeam_plainAdd(d, n) ==
    /\ Idle(d) /\ cur[d] # NoUser
    /\ Len(teams) < cap.teams /\ n \in cap.names
    /\ \E ok \in Outcomes :
          /\ Spend(Cost(ok))
          /\ IF ok
                THEN /\ teams' = Append(teams, NewTeam(n))
                     /\ Goto(d, "pl_update", [NoLoc EXCEPT !.team = Len(teams) + 1,
                                                          !.name = n])
                ELSE /\ Finish(d, "Create team failed")
                     /\ UNCHANGED teams
    /\ UNCHANGED <<users, requests, games, local, env, gr, results>>

\* the same handler, updateDoc(userRef, {teamId, isCoordinator: true})
handleCreateTeam_plainUpdate(d) ==
    /\ pc[d] = "pl_update"
    /\ \E ok \in Outcomes :
          /\ Spend(Cost(ok))
          /\ IF ok
                THEN /\ users' = [users EXCEPT ![cur[d]] = CreatorDoc(loc[d].team)]
                     /\ Finish(d, "Team created")
                ELSE /\ UNCHANGED users
                     /\ Finish(d, "Create team failed")
    /\ UNCHANGED <<teams, requests, games, local, env, gr, results>>

\* -------------------------------------------------------- request to join
\* the teamName of a team document as a screen holds it
TeamNameOf(t) == IF t \in 1..Len(teams) THEN teams[t].name ELSE "none"

\* the payload of a join request: teamName is selectedTeam.teamName
NewRequest(u, t) ==
    [userId |-> u, teamId |-> t, teamName |-> TeamNameOf(t), status |-> "pending"]

\* a check that never refuses
AlreadyInTeamIgnored(doc) == FALSE

\* FindATeam handleSendRequest: `if (userData.teamId)`
AlreadyInTeam(doc) == Truthy(doc.teamId)

\* FindATeam handleSendRequest, getDocument(users/uid): refuses a user whose
\* teamId is truthy; the selected team t is one the directory lists
handleSendRequest_read(d, t) ==
    /\ Idle(d) /\ cur[d] # NoUser
    /\ TeamExists(t)
    /\ Len(requests) < cap.reqs
    /\ \E ok \in Outcomes :
          /\ Spend(Cost(ok))
          /\ IF ~ok THEN Finish(d, "Error sending request")
             ELSE IF AlreadyInTeam(users[cur[d]]) THEN Finish(d, "Already in a team")
             ELSE Goto(d, "sr_add", [NoLoc EXCEPT !.team = t])
    /\ UNCHANGED <<store, local, env, gr, results>>

\* FindATeam handleSendRequest, addDoc(requests) and, when the SDK write
\* throws, the REST POST of the same document
handleSendRequest_add(d) ==
    /\ pc[d] = "sr_add"
    /\ \E sdkOk \in Outcomes, restOk \in Outcomes :
          /\ Cost(sdkOk) + Cost(restOk) <= failLeft
          /\ sdkOk => restOk
          /\ Spend(Cost(sdkOk) + Cost(restOk))
          /\ IF sdkOk \/ restOk
                THEN /\ requests' = Append(requests, NewRequest(cur[d], loc[d].team))
                     /\ Finish(d, "Request sent!")
                ELSE /\ UNCHANGED requests
                     /\ Finish(d, "Error sending request")
    /\ UNCHANGED <<users, teams, games, local, env, gr, results>>

\* JoinTeamScreen handleSendRequest: `if (userData.teamId)`
joinAlreadyInTeam(doc) == Truthy(doc.teamId)

\* JoinTeamScreen handleSendRequest, getDoc(users/uid)
joinSendRequest_read(d, t) ==
    /\ Idle(d) /\ cur[d] # NoUser
    /\ TeamExists(t)
    /\ Len(requests) < cap.reqs
    /\ \E ok \in Outcomes :
          /\ Spend(Cost(ok))
          /\ IF ~ok THEN Finish(d, "Error sending request")
             ELSE IF joinAlreadyInTeam(users[cur[d]]) THEN Finish(d, "Already in a team")
             ELSE Goto(d, "jr_dup", [NoLoc EXCEPT !.team = t])
    /\ UNCHANGED <<store, local, env, gr, results>>

\* the query "Prevent duplicate requests": userId, teamId, status == pending
ExistingRequests(u, t) == {r \in PendingOfTeam(t) : requests[r].userId = u}

\* JoinTeamScreen handleSendRequest, getDocs(existing pending requests)
joinSendRequest_dup(d) ==
    /\ pc[d] = "jr_dup"
    /\ \E ok \in Outcomes :
          /\ Spend(Cost(ok))
          /\ IF ~ok THEN Finish(d, "Error sending request")
             ELSE IF ExistingRequests(cur[d], loc[d].team) # {}
                THEN Finish(d, "Request already sent")
             ELSE Goto(d, "jr_add", loc[d])
    /\ UNCHANGED <<store, local, env, gr, results>>

\* JoinTeamScreen handleSendRequest, addDoc(requests)
joinSendRequest_add(d) ==
    /\ pc[d] = "jr_add"
    /\ \E ok \in Outcomes :
          /\ Spend(Cost(ok))
          /\ IF ok
                THEN /\ requests' = Append(requests, NewRequest(cur[d], loc[d].team))
                     /\ Finish(d, "Request sent!")
                ELSE /\ UNCHANGED requests
                     /\ Finish(d, "Error sending request")
    /\ UNCHANGED <<users, teams, games, local, env, gr, results>>

\* -------------------------------------------------------------- dashboard
\* loadData: the user must be a coordinator and the team document must
\* exist; the request list is the team's pending requests.  Its three reads
\* are taken as one step; a failed read leaves the screen's state as it was.
loadData(d) ==
    /\ Idle(d) /\ cur[d] # NoUser
    /\ users[cur[d]].isCoordinator
    /\ TeamExists(users[cur[d]].teamId)
    /\ teamData' = [teamData EXCEPT ![d] = users[cur[d]].teamId]
    /\ reqList' = [reqList EXCEPT ![d] = PendingOfTeam(users[cur[d]].teamId)]
    /\ toast' = NoToast
    /\ UNCHANGED <<store, cur, creation, pc, loc, failLeft, env, gr, results>>

\* ---------------------------------------------------------- runBatchSafe
DeleteOp(c, i) == [op |-> "delete", col |-> c, id |-> i, uid |-> NoUser]

\* a clearing write that forgets the flag
ClearedDocKeepsFlag == [teamId |-> EmptyTeam, isCoordinator |-> TRUE]

\* the data of that update, also what handleLeaveTeam writes
ClearedDoc == [teamId |-> EmptyTeam, isCoordinator |-> FALSE]

\* one update or delete applied to the store S
ApplyOp(S, o) ==
    CASE o.col = "users"    -> [S EXCEPT !.users[o.uid] = ClearedDoc]
      [] o.col = "requests" -> [S EXCEPT !.requests[o.id].status = "deleted"]
      [] o.col = "games"    -> [S EXCEPT !.games[o.id].live = FALSE]
      [] o.col = "teams"    -> [S EXCEPT !.teams[o.id].live = FALSE]

RECURSIVE ApplyAll(_, _)
ApplyAll(S, ops) == IF ops = <<>> THEN S ELSE ApplyAll(ApplyOp(S, Head(ops)), Tail(ops))

Store == [users |-> users, teams |-> teams, requests |-> requests, games |-> games]

SetStore(S) ==
    /\ users' = S.users
    /\ teams' = S.teams
    /\ requests' = S.requests
    /\ games' = S.games

\* a set of document ids in the order a query returns them
RECURSIVE InOrder(_)
InOrder(S) ==
    IF S = {} THEN <<>>
    ELSE LET m == CHOOSE x \in S : \A y \in S : x <= y IN <<m>> \o InOrder(S \ {m})

RECURSIVE UsersInOrder(_)
UsersInOrder(S) ==
    IF S = {} THEN <<>>
    ELSE LET m == CHOOSE x \in S : TRUE IN <<m>> \o UsersInOrder(S \ {m})

\* docs.map(d => ({ op: 'delete', path: c/d.id }))
DeleteOps(c, ids) == [i \in 1..Len(ids) |-> DeleteOp(c, ids[i])]

\* usersDocs.forEach(u => ops.push({ op: 'update', path: users/u.id,
\* data: { teamId: '', isCoordinator: false } }))
ClearOps(us) ==
    [i \in 1..Len(us) |-> [op |-> "update", col |-> "users", id |-> 0, uid |-> us[i]]]

\* what the handler that called runBatchSafe does once the batch returned
AfterBatch(d) ==
    IF loc[d].kind = "approve"
       THEN /\ reqList' = [reqList EXCEPT ![d] = @ \ {loc[d].req}]
            /\ UNCHANGED <<teamData, gameLists>>
            /\ Finish(d, "Coordinator Approved")
       ELSE /\ reqList' = [reqList EXCEPT ![d] = {}]
            /\ teamData' = [teamData EXCEPT ![d] = NullTeam]
            /\ LeaveDashboard(d)
            /\ Finish(d, "Team deleted")

\* the handler's catch block
BatchThrew(d) ==
    /\ UNCHANGED <<teamData, reqList, gameLists>>
    /\ Finish(d, IF loc[d].kind = "approve" THEN "Error approving request"
                                            ELSE "Delete failed")

\* runBatchSafe, web SDK: writeBatch ... batch.commit(), all or nothing
runBatchSafe_web(d) ==
    /\ pc[d] = "batch" /\ ~native
    /\ \E ok \in Outcomes :
          /\ Spend(Cost(ok))
          /\ IF ok THEN SetStore(ApplyAll(Store, loc[d].ops)) /\ AfterBatch(d)
                   ELSE UNCHANGED store /\ BatchThrew(d)
    /\ UNCHANGED <<cur, creation, env, gameRequests, results>>

\* runBatchSafe, native SDK: the next op of the loop; a failed op is logged
\* and the loop continues
runBatchSafe_native(d) ==
    /\ pc[d] = "batch" /\ native
    /\ \E ok \in Outcomes :
          /\ Spend(Cost(ok))
          /\ IF ok THEN SetStore(ApplyOp(Store, Head(loc[d].ops))) ELSE UNCHANGED store
    /\ IF Len(loc[d].ops) = 1
          THEN AfterBatch(d)
          ELSE /\ Goto(d, "batch", [loc[d] EXCEPT !.ops = Tail(@)])
               /\ UNCHANGED <<teamData, reqList, gameLists>>
    /\ UNCHANGED <<cur, creation, env, gameRequests, results>>

\* --------------------------------------------------------- approve, reject
\* the fields handleApprove writes to users/{request.userId}
ApprovedDoc(t) == [teamId |-> t, isCoordinator |-> TRUE]

\* handleApprove(request), request taken from the dashboard's list:
\* updateDocSafe(users/userId, {isCoordinator: true, teamId}).
\* loc.pend remembers the requests pending for the team before the call.
handleApprove_user(d, r) ==
    /\ Idle(d) /\ r \in reqList[d]
    /\ \E ok \in Outcomes :
          /\ Spend(Cost(ok))
          /\ IF ok
                THEN /\ users' = [users EXCEPT ![requests[r].userId] =
                                      ApprovedDoc(requests[r].teamId)]
                     /\ Goto(d, "ap_mark", [NoLoc EXCEPT !.req = r, !.kind = "approve",
                                               !.team = requests[r].teamId,
                                               !.pend = PendingOfTeam(requests[r].teamId)])
                ELSE /\ UNCHANGED users
                     /\ Finish(d, "Error approving request")
    /\ UNCHANGED <<teams, requests, games, local, env, gr, results>>

\* handleApprove: updateDocSafe(requests/id, {status: 'approved'}); update
\* throws when the document no longer exists
handleApprove_mark(d) ==
    /\ pc[d] = "ap_mark"
    /\ \E ok \in Outcomes :
          /\ Spend(Cost(ok))
          /\ IF ok /\ ReqExists(loc[d].req)
                THEN /\ requests' = [requests EXCEPT ![loc[d].req].status = "approved"]
                     /\ Goto(d, "ap_query", loc[d])
                ELSE /\ UNCHANGED requests
                     /\ Finish(d, "Error approving request")
    /\ UNCHANGED <<users, teams, games, local, env, gr, results>>

\* the deletes handleApprove builds: every request of the team but this one
SiblingDeletes(t, r) == DeleteOps("requests", InOrder(RequestsOfTeam(t) \ {r}))

\* handleApprove: runCollectionQuery(requests where teamId == request.teamId),
\* then runBatchSafe(deletes) when there is something to delete
handleApprove_query(d) ==
    /\ pc[d] = "ap_query"
    /\ \E ok \in Outcomes :
          /\ Spend(Cost(ok))
          /\ IF ~ok
                THEN /\ Finish(d, "Error approving request")
                     /\ UNCHANGED reqList
             ELSE IF SiblingDeletes(loc[d].team, loc[d].req) = <<>>
                THEN /\ Finish(d, "Coordinator Approved")
                     /\ reqList' = [reqList EXCEPT ![d] = @ \ {loc[d].req}]
             ELSE /\ Goto(d, "batch", [loc[d] EXCEPT
                                         !.ops = SiblingDeletes(loc[d].team, loc[d].req)])
                  /\ UNCHANGED reqList
    /\ UNCHANGED <<store, cur, creation, teamData, env, gr, results>>

\* handleReject(id): updateDocSafe(requests/id, {status: 'rejected'})
handleReject(d, r) ==
    /\ Idle(d) /\ r \in reqList[d]
    /\ \E ok \in Outcomes :
          /\ Spend(Cost(ok))
          /\ IF ok /\ ReqExists(r)
                THEN /\ requests' = [requests EXCEPT ![r].status = "rejected"]
                     /\ reqList' = [reqList EXCEPT ![d] = @ \ {r}]
                     /\ Finish(d, "Request Rejected")
                ELSE /\ UNCHANGED <<requests, reqList>>
                     /\ Finish(d, "Error rejecting request")
    /\ UNCHANGED <<users, teams, games, cur, creation, teamData, env, gr, results>>

\* -------------------------------------------------------------- save team
\* handleSaveTeam with name n typed into the form:
\* updateDocSafe(teams/id, {teamName, ...}); a failure goes to the outer catch
handleSaveTeam_update(d, n) ==
    /\ Idle(d) /\ cur[d] # NoUser /\ teamData[d] # NullTeam
    /\ n \in cap.names
    /\ \E ok \in Outcomes :
          /\ Spend(Cost(ok))
          /\ IF ok /\ TeamExists(teamData[d])
                THEN /\ teams' = [teams EXCEPT ![teamData[d]].name = n]
                     /\ Goto(d, "sv_query", [NoLoc EXCEPT !.team = teamData[d],
                                                !.name = n, !.kind = "save"])
                ELSE /\ UNCHANGED teams
                     /\ Finish(d, "Save failed")
    /\ UNCHANGED <<users, requests, games, local, env, gr, results>>

\* reqDocs.map(r => ({ op: 'update', path: requests/r.id, data: { teamName } }))
RenameOps(ids) ==
    [i \in 1..Len(ids) |->
        [op |-> "update", col |-> "requests", id |-> ids[i], uid |-> NoUser]]

\* handleSaveTeam, the propagation: runCollectionQuery(requests where
\* teamId == teamData.id); a failure is caught by the inner try and logged.
\* Only the requests collection is read.
handleSaveTeam_query(d) ==
    /\ pc[d] = "sv_query"
    /\ \E ok \in Outcomes :
          /\ Spend(Cost(ok))
          /\ IF ok /\ RequestsOfTeam(loc[d].team) # {}
                THEN Goto(d, "sv_batch", [loc[d] EXCEPT
                            !.ops = RenameOps(InOrder(RequestsOfTeam(loc[d].team)))])
                ELSE Finish(d, "Team updated")
    /\ UNCHANGED <<store, local, env, gr, results>>

\* one rename op applied to the requests R
ApplyRename(R, o, n) == [R EXCEPT ![o.id].teamName = n]

RECURSIVE ApplyRenames(_, _, _)
ApplyRenames(R, ops, n) ==
    IF ops = <<>> THEN R ELSE ApplyRenames(ApplyRename(R, Head(ops), n), Tail(ops), n)

\* handleSaveTeam, runBatchSafe(ops) on the web SDK (and the writeBatch of
\* CoordinatorDashboardScreen): all or nothing, a failure is caught and logged
handleSaveTeam_batch_web(d) ==
    /\ pc[d] = "sv_batch" /\ ~native
    /\ \E ok \in Outcomes :
          /\ Spend(Cost(ok))
          /\ requests' = IF ok THEN ApplyRenames(requests, loc[d].ops, loc[d].name)
                               ELSE requests
    /\ Finish(d, "Team updated")
    /\ UNCHANGED <<users, teams, games, local, env, gr, results>>

\* handleSaveTeam, runBatchSafe(ops) on the native SDK: the next op of the
\* loop; a failed op is logged and the loop continues
handleSaveTeam_batch_native(d) ==
    /\ pc[d] = "sv_batch" /\ native
    /\ \E ok \in Outcomes :
          /\ Spend(Cost(ok))
          /\ requests' = IF ok THEN ApplyRename(requests, Head(loc[d].ops), loc[d].name)
                               ELSE requests
    /\ IF Len(loc[d].ops) = 1
          THEN Finish(d, "Team updated")
          ELSE Goto(d, "sv_batch", [loc[d] EXCEPT !.ops = Tail(@)])
    /\ UNCHANGED <<users, teams, games, local, env, gr, results>>

\* ------------------------------------------------------------- leave team
\* a check that lets the only coordinator through
LastCoordinatorOffByOne(coordCount) == coordCount < 1

\* `if (coordCount <= 1)`: the last coordinator may not leave
LastCoordinator(coordCount) == coordCount <= 1

\* handleLeaveTeam: countCoordinators(teamData.id), then the Alert.
\* (ManageTeamScreen has a second handleLeaveTeam without the count; its
\* button needs a user document with a teamId and isCoordinator false, which
\* none of the writes modelled here produces.)
handleLeaveTeam_count(d) ==
    /\ Idle(d) /\ cur[d] # NoUser /\ teamData[d] # NullTeam
    /\ \E ok \in Outcomes :
          /\ Spend(Cost(ok))
          /\ IF ~ok THEN Finish(d, "Action failed")
             ELSE IF LastCoordinator(countCoordinators(teamData[d]))
                THEN Finish(d, "Cannot leave")
             ELSE Goto(d, "lv_alert", [NoLoc EXCEPT !.team = teamData[d]])
    /\ UNCHANGED <<store, local, env, gr, results>>

\* handleLeaveTeam, the Alert's buttons: Cancel, or Leave:
\* updateDocSafe(users/uid, {teamId: '', isCoordinator: false})
handleLeaveTeam_alert(d) ==
    /\ pc[d] = "lv_alert"
    /\ \E leave \in BOOLEAN, ok \in Outcomes :
          /\ leave \/ ok
          /\ Spend(Cost(ok))
          /\ IF ~leave
                THEN /\ Return(d)
                     /\ UNCHANGED <<users, teamData, reqList, gameLists>>
             ELSE IF ok
                THEN /\ users' = [users EXCEPT ![cur[d]] = ClearedDoc]
                     /\ teamData' = [teamData EXCEPT ![d] = NullTeam]
                     /\ reqList' = [reqList EXCEPT ![d] = {}]
                     /\ LeaveDashboard(d)
                     /\ Finish(d, "You left the team")
             ELSE /\ Finish(d, "Leave failed")
                  /\ UNCHANGED <<users, teamData, reqList, gameLists>>
    /\ UNCHANGED <<teams, requests, games, cur, creation, env, gameRequests, results>>

\* ------------------------------------------------------------ delete team
\* the ops handleDeleteTeam pushes: the team's games, its requests, its
\* users cleared, and finally the team document
DeleteTeamOps(t) ==
    DeleteOps("games", InOrder(GamesOfTeam(t)))
    \o DeleteOps("requests", InOrder(RequestsOfTeam(t)))
    \o ClearOps(UsersInOrder(UsersOfTeam(t)))
    \o <<DeleteOp("teams", t)>>

\* handleDeleteTeam, 'Delete' pressed: the three queries that gather the
\* documents, then runBatchSafe(ops)
handleDeleteTeam_gather(d) ==
    /\ Idle(d) /\ cur[d] # NoUser /\ teamData[d] # NullTeam
    /\ \E ok \in Outcomes :
          /\ Spend(Cost(ok))
          /\ IF ok THEN Goto(d, "batch", [NoLoc EXCEPT !.kind = "delete",
                                            !.team = teamData[d],
                                            !.ops = DeleteTeamOps(teamData[d])])
                   ELSE Finish(d, "Delete failed")
    /\ UNCHANGED <<store, local, env, gr, results>>

\* the app is closed while handleDeleteTeam awaits runBatchSafe: the handler
\* and the screens are gone, the store keeps what was written, and the
\* session survives (browserLocalPersistence)
appClosed(d) ==
    /\ pc[d] = "batch" /\ loc[d].kind = "delete"
    /\ teamData' = [teamData EXCEPT ![d] = NullTeam]
    /\ reqList' = [reqList EXCEPT ![d] = {}]
    /\ creation' = [creation EXCEPT ![d] = NoCreation]
    /\ LeaveDashboard(d)
    /\ Return(d)
    /\ UNCHANGED <<store, cur, failLeft, env, gameRequests, results>>

\* ----------------------------------------------------------- create games

\* the checks of createGames on the user document it read
MayCreateGames(doc) == doc.isCoordinator /\ Truthy(doc.teamId)

\* createGames: getDocument(users/uid), `if (!isCoordinator || !teamId)`;
\* then every selected occurrence is marked pending, totalToCreate is their
\* number and createdCount is 0
createGames_read(d, n) ==
    /\ Idle(d) /\ cur[d] # NoUser
    /\ Len(games) + n <= cap.games
    /\ \E ok \in Outcomes :
          /\ Spend(Cost(ok))
          /\ IF ~ok THEN Finish(d, "Create failed") /\ UNCHANGED creation
             ELSE IF ~MayCreateGames(users[cur[d]])
                THEN Finish(d, "Permission denied") /\ UNCHANGED creation
             ELSE /\ Goto(d, "cg_add", [NoLoc EXCEPT !.team = users[cur[d]].teamId,
                                                     !.todo = n])
                  /\ creation' = [creation EXCEPT ![d] =
                        [status |-> [i \in 1..MaxOcc |->
                                        IF i <= n THEN "pending" ELSE @.status[i]],
                         createdCount |-> 0, totalToCreate |-> n]]
    /\ UNCHANGED <<store, cur, teamData, reqList, env, gr, results>>

\* the payload of a game document: teamId, type, createdBy
NewGame(t, u, ty, ti) ==
    [teamId |-> t, type |-> ty, title |-> ti, createdBy |-> u, live |-> TRUE]

\* an occurrence whose write failed is marked success all the same
ItemStatusAlwaysSuccess(ok) == "success"

\* setCreationStatus of one occurrence after its write
ItemStatus(ok) == IF ok THEN "success" ELSE "error"

\* the occurrence the loop is at, the selected ones counted from 1
CurrentItem(d) == creation[d].totalToCreate - loc[d].todo + 1

\* createGames, one turn of `for (const iso of selectedIsos)`:
\* addDocSafe('games', payload), a failure marks the occurrence and goes on;
\* after the last one the toast names successCount
createGames_add(d) ==
    /\ pc[d] = "cg_add"
    /\ \E ok \in Outcomes :
          /\ Spend(Cost(ok))
          /\ games' = IF ok THEN Append(games, NewGame(loc[d].team, cur[d], "open",
                                                      "Available Game"))
                            ELSE games
          /\ creation' = [creation EXCEPT
                             ![d].status[CurrentItem(d)] = ItemStatus(ok),
                             ![d].createdCount = IF ok THEN @ + 1 ELSE @]
          /\ LET made == loc[d].made + (IF ok THEN 1 ELSE 0) IN
             IF loc[d].todo = 1
                THEN /\ pc' = [pc EXCEPT ![d] = "idle"]
                     /\ loc' = [loc EXCEPT ![d] = NoLoc]
                     /\ toast' = IF made > 0 THEN [Show(d, "Games created") EXCEPT !.n = made]
                                            ELSE Show(d, "Create failed")
                ELSE Goto(d, "cg_add", [loc[d] EXCEPT !.todo = @ - 1, !.made = made])
    /\ UNCHANGED <<users, teams, requests, cur, teamData, reqList, env, gr, results>>

\* ------------------------------------------- create game, the dashboard
\* handleCreateGame, ty the newGameType of the form ('home' or 'away'):
\* `if (!teamData?.id || !user?.uid)` looks at the team the
\* screen loaded, the user document is not read; addDoc(games)
handleCreateGame(d, ty) ==
    /\ Idle(d) /\ cur[d] # NoUser
    /\ Len(games) < cap.games
    /\ IF ~Truthy(teamData[d])
          THEN /\ Finish(d, "Missing team or user")
               /\ UNCHANGED <<games, failLeft>>
          ELSE \E ok \in Outcomes :
                  /\ Spend(Cost(ok))
                  /\ games' = IF ok THEN Append(games, NewGame(teamData[d], cur[d], ty, "Game"))
                                    ELSE games
                  /\ Finish(d, IF ok THEN "Game created" ELSE "Create failed")
    /\ UNCHANGED <<users, teams, requests, cur, creation, teamData, reqList, env, gr, results>>

\* ------------------------------------------- game requests, the dashboard
GameReqExists(r) == r \in 1..Len(gameRequests) /\ gameRequests[r].status # "deleted"

\* runCollectionQuery(gameRequests where teamId == teamId)
GameRequestsOfTeam(t) == {r \in 1..Len(gameRequests) :
                             GameReqExists(r) /\ gameRequests[r].teamId = t}

\* fetchGameRequests(teamData.id): the list is the query's result, a failed
\* query empties it
fetchGameRequests(d) ==
    /\ Idle(d) /\ cur[d] # NoUser /\ Truthy(teamData[d])
    /\ \E ok \in Outcomes :
          /\ Spend(Cost(ok))
          /\ gameReqList' = [gameReqList EXCEPT ![d] =
                                IF ok THEN GameRequestsOfTeam(teamData[d]) ELSE {}]
    /\ toast' = NoToast
    /\ UNCHANGED <<store, local, pc, loc, env, gameRequests, gameList, results>>

\* the game handleApproveGameRequest builds from request r on device d
GameFromRequest(d, r) ==
    NewGame(teamData[d], gameRequests[r].requestedBy, gameRequests[r].type,
            gameRequests[r].title)

\* handleApproveGameRequest(req), req taken from the listed requests:
\* addDocSafe('games', payload); the status of the request is not looked at
handleApproveGameRequest_add(d, r) ==
    /\ Idle(d) /\ cur[d] # NoUser /\ Truthy(teamData[d])
    /\ r \in gameReqList[d]
    /\ Len(games) < cap.games
    /\ \E ok \in Outcomes :
          /\ Spend(Cost(ok))
          /\ IF ok THEN /\ games' = Append(games, GameFromRequest(d, r))
                        /\ Goto(d, "ag_mark", [NoLoc EXCEPT !.req = r])
                   ELSE /\ UNCHANGED games
                        /\ Finish(d, "Approve failed")
    /\ UNCHANGED <<users, teams, requests, local, env, gr, results>>

\* updateDocSafe(gameRequests/id, {status: 'approved'}); update fails on a
\* document that no longer exists; a failure leads to deleteDocSafe
handleApproveGameRequest_mark(d) ==
    /\ pc[d] = "ag_mark"
    /\ \E ok \in Outcomes :
          /\ Spend(Cost(ok))
          /\ IF ok /\ GameReqExists(loc[d].req)
                THEN /\ gameRequests' = [gameRequests EXCEPT ![loc[d].req].status = "approved"]
                     /\ pc' = [pc EXCEPT ![d] = "ag_fetch"]
                     /\ toast' = Show(d, "Game created")
                     /\ UNCHANGED loc
                ELSE /\ UNCHANGED gameRequests
                     /\ Goto(d, "ag_delete", loc[d])
    /\ UNCHANGED <<store, local, env, gameReqList, gameList, results>>

\* deleteDocSafe(gameRequests/id) after the failed update; its own failure
\* is logged and the success toast follows
handleApproveGameRequest_delete(d) ==
    /\ pc[d] = "ag_delete"
    /\ \E ok \in Outcomes :
          /\ Spend(Cost(ok))
          /\ gameRequests' = IF ok THEN [gameRequests EXCEPT ![loc[d].req].status = "deleted"]
                                   ELSE gameRequests
    /\ pc' = [pc EXCEPT ![d] = "ag_fetch"]
    /\ toast' = Show(d, "Game created")
    /\ UNCHANGED <<store, local, loc, env, gameReqList, gameList, results>>

\* the end of handleApproveGameRequest: fetchGameRequests(teamData.id)
handleApproveGameRequest_fetch(d) ==
    /\ pc[d] = "ag_fetch"
    /\ \E ok \in Outcomes :
          /\ Spend(Cost(ok))
          /\ gameReqList' = [gameReqList EXCEPT ![d] =
                                IF ok THEN GameRequestsOfTeam(teamData[d]) ELSE {}]
    /\ Return(d)
    /\ UNCHANGED <<store, local, env, gameRequests, gameList, results>>

\* ------------------------------------------------------------ delete game
\* fetchGames(teamData.id): the games of the team; a failed query empties
\* the list and says so
fetchGames(d) ==
    /\ Idle(d) /\ cur[d] # NoUser /\ Truthy(teamData[d])
    /\ \E ok \in Outcomes :
          /\ Spend(Cost(ok))
          /\ gameList' = [gameList EXCEPT ![d] = IF ok THEN GamesOfTeam(teamData[d]) ELSE {}]
          /\ toast' = IF ok THEN NoToast ELSE Show(d, "Failed to load games")
    /\ UNCHANGED <<store, local, pc, loc, env, gameRequests, gameReqList, results>>

\* handleDeleteGame(id) of the dashboard, id taken from the listed games:
\* deleteDocSafe(games/id) with no look at the caller, then the game is
\* dropped from the list
handleDeleteGame(d, g) ==
    /\ Idle(d) /\ cur[d] # NoUser
    /\ g \in gameList[d]
    /\ \E ok \in Outcomes :
          /\ Spend(Cost(ok))
          /\ IF ok
                THEN /\ games' = [games EXCEPT ![g].live = FALSE]
                     /\ gameList' = [gameList EXCEPT ![d] = @ \ {g}]
                     /\ Finish(d, "Game removed")
                ELSE /\ Finish(d, "Delete failed")
                     /\ UNCHANGED <<games, gameList>>
    /\ UNCHANGED <<users, teams, requests, local, env, gameRequests, gameReqList, results>>

\* deleteCreatedGame(id) of the scheduler, id taken from createdGames, the
\* games this user created: Alert, then deleteDocSafe(games/id)
deleteCreatedGame(d, g) ==
    /\ Idle(d) /\ cur[d] # NoUser
    /\ GameExists(g) /\ games[g].createdBy = cur[d]
    /\ \E ok \in Outcomes :
          /\ Spend(Cost(ok))
          /\ games' = IF ok THEN [games EXCEPT ![g].live = FALSE] ELSE games
          /\ Finish(d, IF ok THEN "Game removed" ELSE "Delete failed")
    /\ UNCHANGED <<users, teams, requests, local, env, gr, results>>

\* ------------------------------------------------- nearby games, FindGames
\* Distances are in units of 100 m: dist is what haversineDistanceKm gives
\* for the game's lat / lng and the user's, times ten.
Located(g) == games[g].dist # NoCoords

\* `g.distanceMiles <= radiusMiles` with distanceMiles = dKm * KM_TO_MILES
WithinMiles(g, radiusMiles) == games[g].dist * KmToMilesE6 <= radiusMiles * 10000000

\* s with the game g put before the first game that is farther away
RECURSIVE InsertByDistance(_, _)
InsertByDistance(s, g) ==
    IF s = <<>> THEN <<g>>
    ELSE IF games[Head(s)].dist > games[g].dist THEN <<g>> \o s
    ELSE <<Head(s)>> \o InsertByDistance(Tail(s), g)

\* .sort((a, b) => a.distanceMiles - b.distanceMiles), a stable sort
RECURSIVE SortByDistance(_)
SortByDistance(s) ==
    IF s = <<>> THEN <<>>
    ELSE InsertByDistance(SortByDistance(SubSeq(s, 1, Len(s) - 1)), s[Len(s)])

\* the ids in s that satisfy the filter, in the order of s
Keep(s, ok) == SelectSeq(s, LAMBDA g : g \in ok)

\* listTopLevelCollection('games') / the games query, in document order
GamesListed == [g \in 1..Len(games) |-> g]

\* searchNearbyGames: games without coordinates are dropped, the others are
\* filtered by radiusMiles and sorted by distance
searchNearbyGames(d, radiusMiles) ==
    /\ Idle(d)
    /\ results' = [results EXCEPT ![d] =
          [kind |-> "search", radius |-> radiusMiles,
           items |-> SortByDistance(Keep(GamesListed,
                        {g \in 1..Len(games) : Located(g) /\ WithinMiles(g, radiusMiles)}))]]
    /\ toast' = NoToast
    /\ UNCHANGED <<store, local, pc, loc, failLeft, env, gr>>

\* fetchGames of the filter screen: a game without coordinates is kept, the
\* others are filtered by distanceKm; the order is the query's
fetchGames_filter(d, distanceKm) ==
    /\ Idle(d)
    /\ results' = [results EXCEPT ![d] =
          [kind |-> "fetch", radius |-> distanceKm,
           items |-> Keep(GamesListed,
                        {g \in 1..Len(games) :
                            ~Located(g) \/ games[g].dist <= distanceKm * 10})]]
    /\ toast' = NoToast
    /\ UNCHANGED <<store, local, pc, loc, failLeft, env, gr>>

\* ----------------------------------------------- request a game, FindGames
\* the payload of requestGame for game g: the home team goes into homeTeamId,
\* no teamId and no type are written.  homeTeamName is selectedGame.teamName;
\* requestingTeamName is `me.teamName ?? me.displayName ?? ''`, and no handler
\* modelled here writes a teamName to a user document
NewGameRequest(g, t, u) ==
    [teamId |-> NullTeam, homeTeamId |-> games[g].teamId, requestingTeamId |-> t,
     requestedBy |-> u, title |-> games[g].title, type |-> "none", status |-> "pending",
     homeTeamName |-> TeamNameOf(games[g].teamId), requestingTeamName |-> "none"]

\* requestGame for the selected game g: getDocument(users/uid), then the
\* check of the user document, `me.teamId == null`
requestGame_read(d, g) ==
    /\ Idle(d) /\ cur[d] # NoUser
    /\ GameExists(g)
    /\ Len(gameRequests) < SoloGameReq
    /\ \E ok \in Outcomes :
          /\ Spend(Cost(ok))
          /\ IF ~ok THEN Finish(d, "Failed to send request")
             ELSE IF users[cur[d]].teamId = NullTeam
                THEN Finish(d, "Join or create a team first")
             ELSE Goto(d, "rg_add", [NoLoc EXCEPT !.team = users[cur[d]].teamId,
                                                  !.req = g])
    /\ UNCHANGED <<store, local, env, gr, results>>

\* requestGame, addDoc(gameRequests); a failure falls through to the REST call
requestGame_add(d) ==
    /\ pc[d] = "rg_add"
    /\ \E ok \in Outcomes :
          /\ Spend(Cost(ok))
          /\ IF ok THEN /\ gameRequests' = Append(gameRequests,
                                             NewGameRequest(loc[d].req, loc[d].team, cur[d]))
                        /\ Finish(d, "Game request sent")
                   ELSE /\ UNCHANGED gameRequests
                        /\ Goto(d, "rg_rest", loc[d])
    /\ UNCHANGED <<store, local, env, gameReqList, gameList, results>>

\* requestGame, the REST fallback: POST .../documents/gameRequests
requestGame_rest(d) ==
    /\ pc[d] = "rg_rest"
    /\ \E ok \in Outcomes :
          /\ Spend(Cost(ok))
          /\ IF ok THEN /\ gameRequests' = Append(gameRequests,
                                             NewGameRequest(loc[d].req, loc[d].team, cur[d]))
                        /\ Finish(d, "Game request sent (fallback)")
                   ELSE /\ UNCHANGED gameRequests
                        /\ Finish(d, "Failed to send request")
    /\ UNCHANGED <<store, local, env, gameReqList, gameList, results>>

\* ------------------------------------------------------------------ logout
\* handleLogout: auth.signOut(); the screens of the account unmount
handleLogout(d) ==
    /\ Idle(d) /\ cur[d] # NoUser
    /\ cur' = [cur EXCEPT ![d] = NoUser]
    /\ teamData' = [teamData EXCEPT ![d] = NullTeam]
    /\ reqList' = [reqList EXCEPT ![d] = {}]
    /\ creation' = [creation EXCEPT ![d] = NoCreation]
    /\ gameReqList' = [gameReqList EXCEPT ![d] = {}]
    /\ gameList' = [gameList EXCEPT ![d] = {}]
    /\ toast' = NoToast
    /\ UNCHANGED <<store, pc, loc, failLeft, env, gameRequests, gameList, results>>

\* ------------------------------------------------------- specifications
\* steps every specification has: login and the creation of a team
Onboard ==
    \/ \E d \in Devices, u \in Users : handleLogin(d, u)
    \/ \E d \in Devices, n \in Names : handleCreateTeam_read(d, n)
    \/ \E d \in Devices : handleCreateTeam_add(d)
    \/ \E d \in Devices : handleCreateTeam_upsert(d)

\* FindATeam's request to join
SendRequest ==
    \/ \E d \in Devices, t \in TeamIds : handleSendRequest_read(d, t)
    \/ \E d \in Devices : handleSendRequest_add(d)

\* the coordinator dashboard's membership handlers, runBatchSafe apart
Dashboard ==
    \/ \E d \in Devices : loadData(d)
    \/ \E d \in Devices, r \in 1..MaxReq : handleApprove_user(d, r)
    \/ \E d \in Devices : handleApprove_mark(d)
    \/ \E d \in Devices : handleApprove_query(d)
    \/ \E d \in Devices, r \in 1..MaxReq : handleReject(d, r)
    \/ \E d \in Devices : handleLeaveTeam_count(d)
    \/ \E d \in Devices : handleLeaveTeam_alert(d)
    \/ \E d \in Devices : handleDeleteTeam_gather(d)

\* membership of one team on the native SDK over a lossy network
InitMember ==
    /\ InitApp
    /\ failLeft = MaxFail
    /\ native = TRUE
    /\ cap = [teams |-> SoloTeams, reqs |-> MaxReq, games |-> 0, names |-> OneName]

NextMember ==
    \/ Onboard
    \/ SendRequest
    \/ Dashboard
    \/ \E d \in Devices : runBatchSafe_native(d)

SpecMember == InitMember /\ [][NextMember]_vars

\* membership of several teams on the web SDK over a reliable network
InitRace ==
    /\ InitApp
    /\ failLeft = 0
    /\ native = FALSE
    /\ cap = [teams |-> MaxTeams, reqs |-> MaxReq, games |-> 0, names |-> OneName]

NextRace ==
    \/ Onboard
    \/ SendRequest
    \/ Dashboard
    \/ \E d \in Devices : runBatchSafe_web(d)

SpecRace == InitRace /\ [][NextRace]_vars

\* the two request-to-join screens, devices changing hands
InitJoin ==
    /\ InitApp
    /\ failLeft = MaxFail
    /\ native \in BOOLEAN
    /\ cap = [teams |-> SoloTeams, reqs |-> MaxReq, games |-> 0, names |-> OneName]

NextJoin ==
    \/ Onboard
    \/ SendRequest
    \/ \E d \in Devices, t \in TeamIds : joinSendRequest_read(d, t)
    \/ \E d \in Devices : joinSendRequest_dup(d)
    \/ \E d \in Devices : joinSendRequest_add(d)
    \/ \E d \in Devices : handleLogout(d)

SpecJoin == InitJoin /\ [][NextJoin]_vars

\* the cascade of handleDeleteTeam over games, requests and users
InitCascade ==
    /\ InitApp
    /\ failLeft = MaxFail
    /\ native \in BOOLEAN
    /\ cap = [teams |-> SoloTeams, reqs |-> SoloReq, games |-> MaxGames, names |-> OneName]

NextCascade ==
    \/ Onboard
    \/ SendRequest
    \/ \E d \in Devices, n \in 1..MaxOcc : createGames_read(d, n)
    \/ \E d \in Devices : createGames_add(d)
    \/ \E d \in Devices : loadData(d)
    \/ \E d \in Devices : handleDeleteTeam_gather(d)
    \/ \E d \in Devices : runBatchSafe_web(d)
    \/ \E d \in Devices : runBatchSafe_native(d)

SpecCascade == InitCascade /\ [][NextCascade]_vars

\* scheduling: createGames of the scheduler and handleCreateGame of the
\* dashboard, beside a team that can be deleted, over a lossy network
InitGames ==
    /\ InitApp
    /\ failLeft = MaxFail
    /\ native = FALSE
    /\ cap = [teams |-> SoloTeams, reqs |-> 0, games |-> SchedGames, names |-> OneName]

NextGames ==
    \/ Onboard
    \/ \E d \in Devices, n \in 1..MaxOcc : createGames_read(d, n)
    \/ \E d \in Devices : createGames_add(d)
    \/ \E d \in Devices, ty \in {"home", "away"} : handleCreateGame(d, ty)
    \/ \E d \in Devices : loadData(d)
    \/ \E d \in Devices : handleDeleteTeam_gather(d)
    \/ \E d \in Devices : runBatchSafe_web(d)

SpecGames == InitGames /\ [][NextGames]_vars

\* a game request addressed to team t by the field the dashboard queries
ListedGameRequest(t, u) ==
    [teamId |-> t, homeTeamId |-> t, requestingTeamId |-> NullTeam, requestedBy |-> u,
     title |-> "Friendly", type |-> "away", status |-> "pending",
     homeTeamName |-> "Eagles", requestingTeamName |-> "none"]

\* the dashboard's game requests: u1 coordinates the one team, which has a
\* pending game request from u2; the network may fail twice
InitApprove ==
    /\ InitLocal
    /\ users = [u \in Users |-> IF u = "u1" THEN CreatorDoc(1) ELSE LoginDoc]
    /\ teams = <<NewTeam("Eagles")>>
    /\ requests = <<>>
    /\ games = <<>>
    /\ gameRequests = <<ListedGameRequest(1, "u2")>>
    /\ failLeft = TwoFail
    /\ native = FALSE
    /\ cap = [teams |-> SoloTeams, reqs |-> 0, games |-> SchedGames, names |-> OneName]

NextApprove ==
    \/ \E d \in Devices, u \in Users : handleLogin(d, u)
    \/ \E d \in Devices : loadData(d)
    \/ \E d \in Devices : fetchGameRequests(d)
    \/ \E d \in Devices, r \in 1..SoloGameReq : handleApproveGameRequest_add(d, r)
    \/ \E d \in Devices : handleApproveGameRequest_mark(d)
    \/ \E d \in Devices : handleApproveGameRequest_delete(d)
    \/ \E d \in Devices : handleApproveGameRequest_fetch(d)

SpecApprove == InitApprove /\ [][NextApprove]_vars

\* requesting a game after leaving or deleting one's team.  Either u1 and u2
\* both coordinate Eagles, which has a game, or u1 coordinates Eagles and u2
\* coordinates Hawks, which has the game.
InitRequestGame ==
    /\ InitLocal
    /\ \E both \in BOOLEAN :
          /\ users = [u \in Users |-> IF u = "u1" \/ both THEN ApprovedDoc(1)
                                                          ELSE CreatorDoc(2)]
          /\ teams = IF both THEN <<NewTeam("Eagles")>>
                             ELSE <<NewTeam("Eagles"), NewTeam("Hawks")>>
          /\ games = <<NewGame(IF both THEN 1 ELSE 2, "u2", "open", "Available Game")>>
    /\ requests = <<>>
    /\ gameRequests = <<>>
    /\ failLeft = MaxFail
    /\ native = FALSE
    /\ cap = [teams |-> MaxTeams, reqs |-> 0, games |-> MaxGames, names |-> Names]

NextRequestGame ==
    \/ \E d \in Devices, u \in Users : handleLogin(d, u)
    \/ \E d \in Devices : loadData(d)
    \/ \E d \in Devices : handleLeaveTeam_count(d)
    \/ \E d \in Devices : handleLeaveTeam_alert(d)
    \/ \E d \in Devices : handleDeleteTeam_gather(d)
    \/ \E d \in Devices : runBatchSafe_web(d)
    \/ \E d \in Devices, g \in 1..MaxGames : requestGame_read(d, g)
    \/ \E d \in Devices : requestGame_add(d)
    \/ \E d \in Devices : requestGame_rest(d)

SpecRequestGame == InitRequestGame /\ [][NextRequestGame]_vars

\* deleting games: u1 and u2 both coordinate Eagles, whose game u2 created
InitDeleteGame ==
    /\ InitLocal
    /\ users = [u \in Users |-> ApprovedDoc(1)]
    /\ teams = <<NewTeam("Eagles")>>
    /\ games = <<NewGame(1, "u2", "open", "Available Game")>>
    /\ requests = <<>>
    /\ gameRequests = <<>>
    /\ failLeft = MaxFail
    /\ native = FALSE
    /\ cap = [teams |-> SoloTeams, reqs |-> 0, games |-> MaxGames, names |-> OneName]

NextDeleteGame ==
    \/ \E d \in Devices, u \in Users : handleLogin(d, u)
    \/ \E d \in Devices : handleLogout(d)
    \/ \E d \in Devices : loadData(d)
    \/ \E d \in Devices : fetchGames(d)
    \/ \E d \in Devices : handleLeaveTeam_count(d)
    \/ \E d \in Devices : handleLeaveTeam_alert(d)
    \/ \E d \in Devices, g \in 1..MaxGames : handleDeleteGame(d, g)
    \/ \E d \in Devices, g \in 1..MaxGames : deleteCreatedGame(d, g)

SpecDeleteGame == InitDeleteGame /\ [][NextDeleteGame]_vars

\* radii typed into the search
Radii == {10, 25}

\* searching: up to MaxNear games, each a game document with its distance
\* from the user, 2, 8 or 15 miles or either side of 10 miles (16.0 km and
\* 16.1 km), or without coordinates; nothing is written
InitNearby ==
    /\ InitLocal
    /\ users = [u \in Users |-> LoginDoc]
    /\ teams = <<>>
    /\ requests = <<>>
    /\ gameRequests = <<>>
    /\ \E n \in 0..MaxNear :
          games \in [1..n -> {[dist |-> x] @@ NewGame(1, "u1", "open", "Available Game") :
                                 x \in {32, 129, 160, 161, 241, NoCoords}}]
    /\ failLeft = 0
    /\ native = FALSE
    /\ cap = [teams |-> 0, reqs |-> 0, games |-> 0, names |-> OneName]

NextNearby ==
    \/ \E d \in Devices, r \in Radii : searchNearbyGames(d, r)
    \/ \E d \in Devices, r \in Radii : fetchGames_filter(d, r)

SpecNearby == InitNearby /\ [][NextNearby]_vars

\* the three team-creation forms, names chosen freely, over a lossy network
InitCreate ==
    /\ InitApp
    /\ failLeft = MaxFail
    /\ native = FALSE
    /\ cap = [teams |-> MaxTeams, reqs |-> 0, games |-> 0, names |-> Names]

NextCreate ==
    \/ Onboard
    \/ \E d \in Devices, n \in Names : handleCreateTeam_nameCheck(d, n)
    \/ \E d \in Devices : handleCreateTeam_nameAdd(d)
    \/ \E d \in Devices : handleCreateTeam_nameUpdate(d)
    \/ \E d \in Devices, n \in Names : handleCreateTeam_plainAdd(d, n)
    \/ \E d \in Devices : handleCreateTeam_plainUpdate(d)

SpecCreate == InitCreate /\ [][NextCreate]_vars

\* renaming a team that others refer to: u1 coordinates Eagles, u2 coordinates
\* Hawks; u2 asked to join Eagles before founding Hawks and has requested the
\* game of Eagles
InitRename ==
    /\ InitLocal
    /\ users = [u \in Users |-> IF u = "u1" THEN CreatorDoc(1) ELSE CreatorDoc(2)]
    /\ teams = <<NewTeam("Eagles"), NewTeam("Hawks")>>
    /\ games = <<NewGame(1, "u1", "open", "Available Game")>>
    /\ requests = <<NewRequest("u2", 1)>>
    /\ gameRequests = <<NewGameRequest(1, 2, "u2")>>
    /\ failLeft = MaxFail
    /\ native \in BOOLEAN
    /\ cap = [teams |-> MaxTeams, reqs |-> SoloReq, games |-> MaxGames, names |-> Names]

NextRename ==
    \/ \E d \in Devices, u \in Users : handleLogin(d, u)
    \/ \E d \in Devices : loadData(d)
    \/ \E d \in Devices, n \in Names : handleSaveTeam_update(d, n)
    \/ \E d \in Devices : handleSaveTeam_query(d)
    \/ \E d \in Devices : handleSaveTeam_batch_web(d)
    \/ \E d \in Devices : handleSaveTeam_batch_native(d)

SpecRename == InitRename /\ [][NextRename]_vars

\* an account that has applied to a team and does not log in
Applicant == "u3"

\* two approvals at once: u1 coordinates Eagles and is logged in wherever the
\* dashboard is opened; u2 and the applicant each have a pending request, and
\* u2 may found a team meanwhile
InitTwoApprovals ==
    /\ InitLocal
    /\ users = [u \in Users \cup {Applicant} |->
                   IF u = "u1" THEN CreatorDoc(1) ELSE LoginDoc]
    /\ teams = <<NewTeam("Eagles")>>
    /\ games = <<>>
    /\ requests = <<NewRequest("u2", 1), NewRequest(Applicant, 1)>>
    /\ gameRequests = <<>>
    /\ failLeft = 0
    /\ native \in BOOLEAN
    /\ cap = [teams |-> MaxTeams, reqs |-> MaxReq, games |-> 0, names |-> OneName]

NextTwoApprovals ==
    \/ Onboard
    \/ \E d \in Devices : loadData(d)
    \/ \E d \in Devices, r \in 1..MaxReq : handleApprove_user(d, r)
    \/ \E d \in Devices : handleApprove_mark(d)
    \/ \E d \in Devices : handleApprove_query(d)
    \/ \E d \in Devices : runBatchSafe_web(d)
    \/ \E d \in Devices : runBatchSafe_native(d)

SpecTwoApprovals == InitTwoApprovals /\ [][NextTwoApprovals]_vars

\* the cascade cut short: u1 coordinates Eagles, which has a game and a
\* pending request of u2; the network is reliable
InitResume ==
    /\ InitLocal
    /\ users = [u \in Users |-> IF u = "u1" THEN CreatorDoc(1) ELSE LoginDoc]
    /\ teams = <<NewTeam("Eagles")>>
    /\ games = <<NewGame(1, "u1", "open", "Available Game")>>
    /\ requests = <<NewRequest("u2", 1)>>
    /\ gameRequests = <<>>
    /\ failLeft = 0
    /\ native \in BOOLEAN
    /\ cap = [teams |-> SoloTeams, reqs |-> SoloReq, games |-> MaxGames, names |-> OneName]

NextResume ==
    \/ \E d \in Devices, u \in Users : handleLogin(d, u)
    \/ \E d \in Devices : loadData(d)
    \/ \E d \in Devices : handleDeleteTeam_gather(d)
    \/ \E d \in Devices : runBatchSafe_web(d)
    \/ \E d \in Devices : runBatchSafe_native(d)
    \/ \E d \in Devices : appClosed(d)

SpecResume == InitResume /\ [][NextResume]_vars

\* the name-checked form alone, names chosen freely, over a lossy network
InitNameCheck ==
    /\ InitApp
    /\ failLeft = MaxFail
    /\ native = FALSE
    /\ cap = [teams |-> MaxTeams, reqs |-> 0, games |-> 0, names |-> Names]

NextNameCheck ==
    \/ \E d \in Devices, u \in Users : handleLogin(d, u)
    \/ \E d \in Devices, n \in Names : handleCreateTeam_nameCheck(d, n)
    \/ \E d \in Devices : handleCreateTeam_nameAdd(d)
    \/ \E d \in Devices : handleCreateTeam_nameUpdate(d)

SpecNameCheck == InitNameCheck /\ [][NextNameCheck]_vars

\* a game request on its way to the home team: u1 coordinates Eagles, which
\* has a game; u2 coordinates Hawks and may request that game
InitInbox ==
    /\ InitLocal
    /\ users = [u \in Users |-> IF u = "u1" THEN CreatorDoc(1) ELSE CreatorDoc(2)]
    /\ teams = <<NewTeam("Eagles"), NewTeam("Hawks")>>
    /\ games = <<NewGame(1, "u1", "open", "Available Game")>>
    /\ requests = <<>>
    /\ gameRequests = <<>>
    /\ failLeft = MaxFail
    /\ native = FALSE
    /\ cap = [teams |-> MaxTeams, reqs |-> 0, games |-> MaxGames, names |-> Names]

NextInbox ==
    \/ \E d \in Devices, u \in Users : handleLogin(d, u)
    \/ \E d \in Devices : loadData(d)
    \/ \E d \in Devices, g \in 1..MaxGames : requestGame_read(d, g)
    \/ \E d \in Devices : requestGame_add(d)
    \/ \E d \in Devices : requestGame_rest(d)
    \/ \E d \in Devices : fetchGameRequests(d)

SpecInbox == InitInbox /\ [][NextInbox]_vars

\* the cleanup steps over a lossy network: u1 coordinates Eagles, to which
\* u2 and the applicant have applied
InitCleanup ==
    /\ InitLocal
    /\ users = [u \in Users \cup {Applicant} |->
                   IF u = "u1" THEN CreatorDoc(1) ELSE LoginDoc]
    /\ teams = <<NewTeam("Eagles")>>
    /\ games = <<>>
    /\ requests = <<NewRequest("u2", 1), NewRequest(Applicant, 1)>>
    /\ gameRequests = <<>>
    /\ failLeft = MaxFail
    /\ native \in BOOLEAN
    /\ cap = [teams |-> SoloTeams, reqs |-> MaxReq, games |-> 0, names |-> Names]

NextCleanup ==
    \/ \E d \in Devices, u \in Users : handleLogin(d, u)
    \/ \E d \in Devices : loadData(d)
    \/ \E d \in Devices, r \in 1..MaxReq : handleApprove_user(d, r)
    \/ \E d \in Devices : handleApprove_mark(d)
    \/ \E d \in Devices : handleApprove_query(d)
    \/ \E d \in Devices : runBatchSafe_web(d)
    \/ \E d \in Devices : runBatchSafe_native(d)
    \/ \E d \in Devices, n \in Names : handleSaveTeam_update(d, n)
    \/ \E d \in Devices : handleSaveTeam_query(d)
    \/ \E d \in Devices : handleSaveTeam_batch_web(d)
    \/ \E d \in Devices : handleSaveTeam_batch_native(d)

SpecCleanup == InitCleanup /\ [][NextCleanup]_vars

\* the event bus alone
InitEvents ==
    /\ InitApp
    /\ failLeft = 0
    /\ native = FALSE
    /\ cap = [teams |-> 0, reqs |-> 0, games |-> 0, names |-> {}]

NextEvents ==
    \/ \E h \in Handlers : onAppEvent(h)
    \/ \E h \in Handlers : unsubscribe(h)
    \/ emitAppEvent_begin
    \/ emitAppEvent_call
    \/ emitAppEvent_return

SpecEvents == InitEvents /\ [][NextEvents]_vars

\* ------------------------------------------------------------- properties
\* no handler is between two of its remote calls
AtRest == \A d \in Devices : Idle(d)

\* C1: in every reachable state, whatever createTeam, approve, leave,
\* deleteTeam and login steps interleaved, a user document whose
\* isCoordinator is true has a teamId, neither null nor ''.
C1_CoordinatorHasTeam ==
    \A u \in Users : users[u].isCoordinator => Truthy(users[u].teamId)

\* a requester was approved into the team and the creator then left it
C1_Witness ==
    \E u \in Users, v \in Users, r \in 1..MaxReq :
        /\ u # v
        /\ ReqExists(r) /\ requests[r].userId = u /\ requests[r].status = "approved"
        /\ users[u] = ApprovedDoc(requests[r].teamId)
        /\ users[v] = ClearedDoc

\* C2: when handleApprove reports 'Coordinator Approved' for a request that
\* was pending when it was called, no sibling request that was pending for
\* the team at the call is still pending.
C2_SiblingsSettled ==
    [][\A d \in Devices :
          (/\ pc[d] \in {"ap_query", "batch"}
           /\ loc[d].kind = "approve"
           /\ loc[d].req \in loc[d].pend
           /\ toast' = Show(d, "Coordinator Approved"))
          => \A r \in loc[d].pend \ {loc[d].req} : requests'[r].status # "pending"
      ]_vars

\* C3: whenever no handler is in flight, every existing team has a user
\* whose teamId is the team and whose isCoordinator is true.
C3_TeamHasCoordinator ==
    AtRest => \A t \in TeamIds : TeamExists(t) => countCoordinators(t) >= 1

C5_DeleteTeamLeavesNothing ==
    [][\A d \in Devices, t \in TeamIds :
          (/\ pc[d] = "batch" /\ loc[d].kind = "delete" /\ loc[d].team = t
           /\ toast' = Show(d, "Team deleted")
           /\ failLeft' = MaxFail)
          => /\ ~TeamExists(t)'
             /\ GamesOfTeam(t)' = {}
             /\ RequestsOfTeam(t)' = {}
             /\ UsersOfTeam(t)' = {}
      ]_vars

\* C6: the step of the deleteTeam cascade in which a sub-operation fails
\* does not report 'Team deleted'.
C6_FailedCascadeNotSuccess ==
    [][\A d \in Devices :
          (pc[d] = "batch" /\ loc[d].kind = "delete" /\ failLeft' < failLeft)
          => toast' # Show(d, "Team deleted")
      ]_vars

\* C7: handleReject, called for a request that is already approved or
\* rejected, does not change the status of that request.
C7_TerminalStatus ==
    [][\A d \in Devices, r \in 1..MaxReq :
          (/\ Idle(d) /\ r \in reqList[d] /\ ReqExists(r)
           /\ requests[r].status \in {"approved", "rejected"}
           /\ toast' = Show(d, "Request Rejected"))
          => requests'[r].status = requests[r].status
      ]_vars

\* C8: the first write of handleApprove, called again for a request whose
\* status is already approved, leaves every user document as it was.
C8_ReapproveChangesNothing ==
    [][\A d \in Devices, r \in 1..MaxReq :
          (/\ Idle(d) /\ r \in reqList[d]
           /\ ReqExists(r) /\ requests[r].status = "approved"
           /\ pc'[d] = "ap_mark" /\ loc'[d].req = r)
          => users' = users
      ]_vars

\* C9: in every reachable state a user has at most one pending request for
\* a team.
C9_OnePendingPerPair ==
    \A u \in Users, t \in TeamIds : Cardinality(ExistingRequests(u, t)) <= 1

\* C10: a request to join started by a user whose teamId is set creates no
\* request document and never gets past the check of the user document.
C10_MemberCannotRequest ==
    [][\A d \in Devices :
          (/\ Idle(d) /\ cur[d] # NoUser
           /\ Truthy(users[cur[d]].teamId)
           /\ (pc'[d] # "idle" \/ toast'.dev = d))
          => /\ requests' = requests
             /\ pc'[d] \notin {"sr_add", "jr_dup", "jr_add"}
      ]_vars

\* a user who has a team asked to join one and was told 'Already in a team'
C10_Witness ==
    \E d \in Devices :
        /\ toast = Show(d, "Already in a team")
        /\ cur[d] # NoUser /\ Truthy(users[cur[d]].teamId)
        /\ Idle(d)

\* C11: a createTeam started with a name that an existing team already has
\* adds no team document and does not get past its checks.
C11_TakenNameRefused ==
    [][\A d \in Devices, n \in Names :
          (Idle(d) /\ TeamsNamed(n) # {} /\ loc'[d].name = n)
          => /\ teams' = teams
             /\ pc'[d] \notin {"ct_add", "nc_add"}
      ]_vars

\* C12: a createTeam started by a user whose document already says
\* isCoordinator or carries a teamId writes no team document and does not get
\* past its checks (stated for runs in which no remote call has failed).
C12_BlockedCreatorRefused ==
    [][\A d \in Devices :
          (/\ Idle(d) /\ cur[d] # NoUser /\ CreateBlocked(users[cur[d]])
           /\ loc'[d].name \in Names /\ failLeft' = MaxFail)
          => /\ teams' = teams
             /\ pc'[d] \notin {"ct_add", "nc_add"}
      ]_vars

\* C13: when the user update that follows the creation of the team fails,
\* the handler ends showing an error message and not one of its success
\* messages.
C13_FailedUserUpdateSurfaced ==
    [][\A d \in Devices :
          (/\ pc[d] \in {"ct_upsert", "nc_update", "pl_update"}
           /\ pc'[d] = "idle" /\ failLeft' < failLeft)
          => /\ toast'.dev = d
             /\ toast'.msg \notin {"none", "Team created", "Team Created!"}
      ]_vars

\* C14: a game-creating handler started by a caller whose user document is
\* not that of a coordinator with a team writes no game document and does
\* not get past its checks (stated for runs in which no remote call has
\* failed).
C14_OnlyCoordinatorSchedules ==
    [][\A d \in Devices :
          (/\ Idle(d) /\ cur[d] # NoUser /\ ~MayCreateGames(users[cur[d]])
           /\ pc'[d] # pc[d] \/ toast'.dev = d
           /\ failLeft' = MaxFail)
          => /\ games' = games
             /\ pc'[d] # "cg_add"
      ]_vars

\* the selected occurrences of the call on d whose status is st
ItemsWith(d, st) == {j \in 1..creation[d].totalToCreate : creation[d].status[j] = st}

C18_TeamlessCannotRequestGame ==
    [][\A d \in Devices :
          (/\ Idle(d) /\ cur[d] # NoUser /\ ~Truthy(users[cur[d]].teamId)
           /\ failLeft' = MaxFail)
          => pc'[d] # "rg_add"
      ]_vars

\* C19: a game is removed by a delete handler only for a caller who created
\* it or whose user document says coordinator of the game's team (stated for
\* runs in which no remote call has failed).
C19_OnlyCreatorOrCoordinatorDeletes ==
    [][\A d \in Devices, g \in 1..Len(games) :
          (/\ games[g].live /\ ~games'[g].live
           /\ toast' = Show(d, "Game removed")
           /\ failLeft' = MaxFail)
          => \/ games[g].createdBy = cur[d]
             \/ /\ users[cur[d]].isCoordinator
                /\ users[cur[d]].teamId = games[g].teamId
      ]_vars

\* C20: when every game has coordinates, what a nearby search shows is
\* exactly the games whose distance from the user is at most the radius in
\* miles, each once, nearest first.
C20_NearbyExactAndSorted ==
    \A d \in Devices :
        (results[d].kind # "none" /\ \A g \in 1..Len(games) : Located(g)) =>
            LET items == results[d].items IN
            /\ {items[i] : i \in 1..Len(items)}
                  = {g \in 1..Len(games) : Located(g) /\ WithinMiles(g, results[d].radius)}
            /\ \A i \in 1..Len(items), j \in 1..Len(items) :
                  i < j => items[i] # items[j] /\ games[items[i]].dist <= games[items[j]].dist

\* C21: when handleSaveTeam ends with 'Team updated' and no remote call has
\* failed, the cached copies of the name of the renamed team, teamName on its
\* requests and homeTeamName on the game requests for its games, are the new
\* name (requestingTeamName, which no handler rewrites either, is left out)
C21_RenameReachesCachedNames ==
    [][\A d \in Devices :
          (pc[d] \in {"sv_query", "sv_batch"} /\ pc'[d] = "idle"
              /\ failLeft' = MaxFail)
          => /\ \A r \in 1..Len(requests') :
                   (requests'[r].status # "deleted" /\ requests'[r].teamId = loc[d].team)
                   => requests'[r].teamName = loc[d].name
             /\ \A q \in 1..Len(gameRequests') :
                   gameRequests'[q].homeTeamId = loc[d].team
                   => gameRequests'[q].homeTeamName = loc[d].name]_vars

\* C22: while two approvals for different requesters of the same team are
\* running on two devices, the two requesters are not both coordinators of
\* that team
C22_FirstApprovalWins ==
    \A d \in Devices, e \in Devices :
        (/\ d # e
         /\ pc[d] \in {"ap_mark", "ap_query", "batch"} /\ loc[d].kind = "approve"
         /\ pc[e] \in {"ap_mark", "ap_query", "batch"} /\ loc[e].kind = "approve"
         /\ loc[d].team = loc[e].team
         /\ requests[loc[d].req].userId # requests[loc[e].req].userId)
        => ~(/\ users[requests[loc[d].req].userId] = ApprovedDoc(loc[d].team)
             /\ users[requests[loc[e].req].userId] = ApprovedDoc(loc[e].team))

\* C23: the first write of handleApprove, for a request whose requester has a
\* team by now, leaves every user document as it was
C23_ApproveOnlyTeamless ==
    [][\A d \in Devices, r \in 1..MaxReq :
          (Idle(d) /\ pc'[d] = "ap_mark" /\ loc'[d].req = r
              /\ Truthy(users[requests[r].userId].teamId))
          => users' = users]_vars

\* C24: when the cascade of handleDeleteTeam is cut short with some of its
\* writes still to do, deleteTeam can be invoked again: the team document
\* exists and some user is a coordinator of the team, so that a dashboard
\* loads it
C24_CascadeCanResume ==
    [][\A d \in Devices :
          (/\ pc[d] = "batch" /\ loc[d].kind = "delete"
           /\ pc'[d] = "idle" /\ toast' = NoToast
           /\ ApplyAll(Store, loc[d].ops) # Store)
          => /\ TeamExists(loc[d].team)
             /\ \E u \in Users :
                   users[u].isCoordinator /\ users[u].teamId = loc[d].team]_vars

\* C25: whenever no handler is in flight (and no remote call has failed),
\* the teamId of every game, of every request and of every user that has one
\* is that of an existing team
C25_TeamReferencesResolve ==
    (AtRest /\ failLeft = MaxFail)
    => /\ \A g \in 1..Len(games) : GameExists(g) => TeamExists(games[g].teamId)
       /\ \A r \in 1..Len(requests) : ReqExists(r) => TeamExists(requests[r].teamId)
       /\ \A u \in Users : Truthy(users[u].teamId) => TeamExists(users[u].teamId)

\* C26: the duplicate-name check of createTeam is a read followed by a write:
\* the handler goes on to its addDoc only when the query found no existing
\* team of that name, and the addDoc, when it succeeds, appends a team of
\* that name whatever the teams are by then
C26_NameCheckIsReadThenWrite ==
    [][\A d \in Devices :
          /\ (Idle(d) /\ pc'[d] = "nc_add")
             => \A t \in 1..Len(teams) : teams[t].live => teams[t].name # loc'[d].name
          /\ (pc[d] = "nc_add" /\ pc'[d] = "nc_update")
             => /\ Len(teams') = Len(teams) + 1
                /\ teams'[Len(teams')] = [live |-> TRUE, name |-> loc[d].name]]_vars

\* two clients both passed the check and both created a team: two existing
\* teams have the same name
C26_Witness ==
    \E t \in TeamIds, v \in TeamIds :
        t # v /\ TeamExists(t) /\ TeamExists(v) /\ teams[t].name = teams[v].name

\* C27: a login leaves the teamId and the isCoordinator of the user who logs
\* in as they were (every account of the model has its user document),
\* whether or not the read of that document succeeds
C27_LoginKeepsMembership ==
    [][\A d \in Devices, u \in Users :
          (cur[d] = NoUser /\ cur'[d] = u)
          => /\ users'[u].teamId = users[u].teamId
             /\ users'[u].isCoordinator = users[u].isCoordinator]_vars

\* C28: every pending game request for a game of team T is among the
\* documents that the game-request query of the dashboard and of the home
\* screen returns for T
C28_RequestedGamesAreListed ==
    \A r \in 1..Len(gameRequests) :
        gameRequests[r].status = "pending"
        => r \in GameRequestsOfTeam(gameRequests[r].homeTeamId)

\* C29: a handler that has done its primary writes and ends in one of its
\* cleanup steps, the propagation of the team name for handleSaveTeam or the
\* invalidation of the sibling requests for handleApprove, ends showing its
\* success message, whether or not the cleanup step failed
C29_CleanupFailureNotReported ==
    [][\A d \in Devices :
          /\ (pc[d] \in {"sv_query", "sv_batch"} /\ pc'[d] = "idle")
             => toast' = Show(d, "Team updated")
          /\ ((pc[d] = "ap_query" \/ (pc[d] = "batch" /\ loc[d].kind = "approve"))
                 /\ pc'[d] = "idle")
             => toast' = Show(d, "Coordinator Approved")]_vars

\* C30: no handler is invoked twice in one emit, and when the loop of
\* emitAppEvent has gone through its copy, every handler that was subscribed
\* when the emit began has been invoked exactly once and no other handler at
\* all, whatever the handlers threw, subscribed or unsubscribed meanwhile
C30_EachHandlerOnce ==
    /\ \A h \in Handlers : bus.calls[h] <= 1
    /\ bus.queue = <<>>
       => \A h \in Handlers : bus.calls[h] = IF h \in bus.began THEN 1 ELSE 0

\* an emit to at least two handlers has returned, in which a handler threw, a
\* handler still to be called was unsubscribed and a new handler subscribed
C30_Witness ==
    /\ ~bus.emitting /\ Cardinality(bus.began) >= 2
    /\ bus.threw /\ bus.added /\ bus.removed

====
